---- MODULE Spec2Model ----
(***************************************************************************)
(* The v0.7.2 revision of FiftyOne's dataset migrations                    *)
(* (fiftyone/migrations/revisions/v0_7_2.py): up and down, as sequences of *)
(* store operations against a document store.                              *)
(*                                                                         *)
(* A document is a function from its keys to their values; a collection is *)
(* the sequence of its documents in natural order; the store maps each     *)
(* collection name to its collection.                                      *)
(***************************************************************************)
EXTENDS Integers, Sequences, FiniteSets, Bags, TLC

\* ------------------------------------------------------------- bounds
\* Sample documents per sample collection.
MaxSamples == 2
\* Frame documents per sample that has frames (frame_number 1..MaxFrames).
MaxFrames == 2
\* Calls of up/down made one after the other by the driver.
MaxCalls == 2
\* Store operations that fail (network error, partial bulk write) in a run.
MaxFaults == 1

\* ------------------------------------------------------------- documents
\* Python's None (what find_one returns when nothing matches).
None == [py |-> "None"]

HasKey(d, k) == k \in DOMAIN d

\* {"$unset": {k: ""}} on one document.
Unset(d, k) == [x \in DOMAIN d \ {k} |-> d[x]]

\* {"$set": {k: v}} on one document.
Set(d, k, v) == [x \in DOMAIN d \cup {k} |-> IF x = k THEN v ELSE d[x]]

\* The indices of a collection, as a set.
Idx(coll) == 1..Len(coll)

\* ------------------------------------------------------------- the store
Names == {"a", "b"}
SampleColl == [a |-> "samples.a", b |-> "samples.b"]
FrameColl == [a |-> "frames.a", b |-> "frames.b"]
Colls == {"datasets"} \cup {SampleColl[n] : n \in Names} \cup {FrameColl[n] : n \in Names}

\* Mutant of find_one: the filter is dropped (find_one()), so the first
\* document of the collection is returned whatever its name.
find_one_unfiltered(coll, name) == IF coll = <<>> THEN None ELSE coll[1]

\* db.datasets.find_one({"name": name}): the first document whose name matches.
find_one(coll, name) ==
  LET hits == {i \in Idx(coll) : HasKey(coll[i], "name") /\ coll[i].name = name}
  IN IF hits = {} THEN None
     ELSE coll[CHOOSE i \in hits : \A j \in hits : i <= j]

\* Mutant of replace_one: the filter is dropped (replace_one({}, doc)), so the
\* first document of the collection is the one replaced.
replace_one_unfiltered(coll, name, doc) ==
  IF coll = <<>> THEN coll ELSE [coll EXCEPT ![1] = Set(doc, "_id", coll[1]._id)]

\* db.datasets.replace_one({"name": name}, doc): the first match is replaced by
\* doc and keeps its _id; without a match nothing is written.
replace_one(coll, name, doc) ==
  LET hits == {i \in Idx(coll) : HasKey(coll[i], "name") /\ coll[i].name = name}
      first == CHOOSE i \in hits : \A j \in hits : i <= j
  IN IF hits = {} THEN coll
     ELSE [coll EXCEPT ![first] = Set(doc, "_id", coll[first]._id)]

\* Mutant of update_many_unset: update_one in place of update_many, so only
\* the first document loses the key.
update_one_unset(coll, key) ==
  [i \in Idx(coll) |-> IF i = 1 THEN Unset(coll[i], key) ELSE coll[i]]

\* coll.update_many({}, {"$unset": {"frames": ""}}): every document of the
\* collection loses the key.
update_many_unset(coll, key) == [i \in Idx(coll) |-> Unset(coll[i], key)]

\* coll.find({"frame_number": 1}): the matching documents, in natural order.
IsFirstFrame(d) == HasKey(d, "frame_number") /\ d.frame_number = 1
find_first_frames(coll) == SelectSeq(coll, IsFirstFrame)

\* Mutant of UpdateOne: the update document lacks $set, so the matched document
\* is replaced by {"frames": frame_d} and keeps only its _id.
UpdateOneReplacing(coll, w) ==
  LET hits == {i \in Idx(coll) : coll[i]._id = w.id}
      first == CHOOSE i \in hits : \A j \in hits : i <= j
  IN IF hits = {} THEN coll
     ELSE [coll EXCEPT ![first] = [_id |-> coll[first]._id, frames |-> w.frames]]

\* pm.UpdateOne({"_id": id}, {"$set": {"frames": frame_d}}) applied to a
\* collection: the first document with that _id gets the key, no upsert.
UpdateOne(coll, w) ==
  LET hits == {i \in Idx(coll) : coll[i]._id = w.id}
      first == CHOOSE i \in hits : \A j \in hits : i <= j
  IN IF hits = {} THEN coll
     ELSE [coll EXCEPT ![first] = Set(coll[first], "frames", w.frames)]

\* An ordered bulk write: the first k operations of ws applied in order.
RECURSIVE bulk_write_prefix(_, _, _)
bulk_write_prefix(coll, ws, k) ==
  IF k = 0 THEN coll
  ELSE UpdateOne(bulk_write_prefix(coll, ws, k - 1), ws[k])

bulk_write(coll, ws) == bulk_write_prefix(coll, ws, Len(ws))

\* ------------------------------------------------------------- the revision
\* down, lines 35-40: the field descriptor appended to sample_fields.
frames ==
  [name |-> "frames",
   ftype |-> "fiftyone.core.fields.EmbeddedDocumentField",
   subfield |-> "None",
   embedded_doc_type |-> "fiftyone.core.labels._Frames"]

\* Mutant of NotVideo: the test is inverted.
IsVideoMediaType(d) == d.media_type = "video"

\* up, line 14, and down, line 32: the dataset is left alone.
NotVideo(d) == d.media_type # "video"

\* Mutant of UpFields: the first field is dropped, frames or not.
AllButFirstField(sample_fields) ==
  IF sample_fields = <<>> THEN <<>> ELSE Tail(sample_fields)

\* Mutant of NotFramesField: the comparison is with the field's ftype, not
\* its name, so no field is recognised as frames.
NotFramesFtype(f) == f.ftype # "frames"

\* up, lines 17-21: the fields not named "frames", in their order.
NotFramesField(f) == f.name # "frames"
UpFields(sample_fields) == SelectSeq(sample_fields, NotFramesField)

\* Mutant of UpDict: up appends the frames field, as down does, in place of
\* filtering it out.
UpDictAppending(d) == [d EXCEPT !.sample_fields = Append(d.sample_fields, frames)]

\* up, line 23: the descriptor up writes back.
UpDict(d) == [d EXCEPT !.sample_fields = UpFields(d.sample_fields)]

\* down, line 41: the descriptor with the frames field appended (a local value).
DownDict(d) == [d EXCEPT !.sample_fields = Append(d.sample_fields, frames)]

\* down, line 43: the collection down reads its first frames from.
DownFrameColl(d) == d.sample_collection_name

\* Mutant of DictSampleColl: the collection is looked up under
\* frame_collection_name.
DictFrameColl(d) == d.frame_collection_name

\* down, line 44 (and up, line 25): the collection the writes go to.
DictSampleColl(d) == d.sample_collection_name

\* Mutant of DownWrites: the frames subdocument also carries a frame count.
DownWritesWithCount(first_frames) ==
  [i \in Idx(first_frames) |->
     [id |-> first_frames[i]._sample_id,
      frames |-> [first_frame |-> first_frames[i], frame_count |-> 1]]]

\* down, lines 47-54: one UpdateOne per first frame, in cursor order.
DownWrites(first_frames) ==
  [i \in Idx(first_frames) |->
     [id |-> first_frames[i]._sample_id,
      frames |-> [first_frame |-> first_frames[i]]]]

\* ------------------------------------------------------------- initial stores
Filepath ==
  [name |-> "filepath", ftype |-> "fiftyone.core.fields.StringField",
   subfield |-> "None", embedded_doc_type |-> "None"]
Tags ==
  [name |-> "tags", ftype |-> "fiftyone.core.fields.ListField",
   subfield |-> "fiftyone.core.fields.StringField", embedded_doc_type |-> "None"]

Descriptor(n, media, fields) ==
  [_id |-> n, name |-> n, media_type |-> media,
   sample_collection_name |-> SampleColl[n],
   frame_collection_name |-> FrameColl[n],
   sample_fields |-> fields, schema_version |-> 1]

\* The descriptors a dataset may start with; "absent" is no descriptor at all.
DescKinds ==
  {"video", "video_mid", "video_up", "image", "no_media_type",
   "no_sample_fields", "no_sample_collection_name", "absent"}

DescOf(n, kind) ==
  CASE kind = "video" -> Descriptor(n, "video", <<frames, Filepath>>)
    [] kind = "video_mid" -> Descriptor(n, "video", <<Filepath, frames, Tags>>)
    [] kind = "video_up" -> Descriptor(n, "video", <<Filepath, Tags>>)
    [] kind = "image" -> Descriptor(n, "image", <<Filepath>>)
    [] kind = "no_media_type" ->
         Unset(Descriptor(n, "video", <<frames, Filepath>>), "media_type")
    [] kind = "no_sample_fields" ->
         Unset(Descriptor(n, "video", <<frames, Filepath>>), "sample_fields")
    [] kind = "no_sample_collection_name" ->
         Unset(Descriptor(n, "video", <<frames, Filepath>>), "sample_collection_name")

FrameDoc(i, k) == [_id |-> 10 * i + k, _sample_id |-> i, frame_number |-> k]

\* The shapes a sample document may start with: without frames, with the frames
\* summary of the current schema, and with fields of its own called frame_number
\* and _sample_id (sample documents carry arbitrary fields).
SampleShapes == {"plain", "frames", "fn_self", "fn_next", "fn_only"}

SampleDoc(i, shape) ==
  LET plain == [_id |-> i, filepath |-> "p"]
  IN CASE shape = "plain" -> plain
       [] shape = "frames" ->
            Set(plain, "frames", [first_frame |-> FrameDoc(i, 1), frame_count |-> MaxFrames])
       [] shape = "fn_self" -> Set(Set(plain, "frame_number", 1), "_sample_id", i)
       [] shape = "fn_next" ->
            Set(Set(plain, "frame_number", 1), "_sample_id", (i % MaxSamples) + 1)
       [] shape = "fn_only" -> Set(plain, "frame_number", 1)

\* Sample 1 has shape s and the others shape t.
Samples(s, t) == [i \in 1..MaxSamples |-> SampleDoc(i, IF i = 1 THEN s ELSE t)]

\* The frame documents of the samples in `with`, frame_number 1..MaxFrames each.
RECURSIVE Frames(_, _)
Frames(i, with) ==
  IF i > MaxSamples THEN <<>>
  ELSE (IF i \in with THEN [k \in 1..MaxFrames |-> FrameDoc(i, k)] ELSE <<>>)
       \o Frames(i + 1, with)

\* Which samples have frame documents: all of them, the first only, or none.
FrameChoices == {1..MaxSamples, {1}, {}}

\* A store: per dataset its descriptor kind, sample shapes and framed samples.
Store(kind, s, t, with) ==
  [c \in Colls |->
     IF c = "datasets"
     THEN (IF kind["a"] = "absent" THEN <<>> ELSE <<DescOf("a", kind["a"])>>)
          \o (IF kind["b"] = "absent" THEN <<>> ELSE <<DescOf("b", kind["b"])>>)
     ELSE LET n == CHOOSE m \in Names : c \in {SampleColl[m], FrameColl[m]}
          IN IF c = SampleColl[n] THEN Samples(s[n], t[n]) ELSE Frames(1, with[n])]

\* ------------------------------------------------------------- state
VARIABLES
  db,            \* the store: collection name -> sequence of documents
  pc,            \* per caller: the store operation its call is about to issue
  call,          \* per caller: [kind, name, pre] of its call (pre: db at entry)
  dataset_dict,  \* per caller: the local dataset_dict
  writes,        \* per caller: the local list of UpdateOne operations
  ops,           \* per caller: the store operations its call has issued so far
  done,          \* per caller: the documents or operations that its pending
                 \* update_many or bulk_write has gone through
  hist,          \* the calls that have ended, in the order they ended
  started,       \* the calls that have started, in the order they started
  faults,        \* the store operations that have failed so far
  connected,     \* server: the sessions connected to the /state namespace
  attrs,         \* server: per controller instance, its instance attributes
  handler,       \* server: the on_update calls in progress, a bag of records
  inbox,         \* server: per session, the update events emitted to it
  stores,        \* server: the assignments to self.state, in order
  log,           \* server: the on_update calls that have ended, in order
  reply          \* server: the reply to the get_current_state just handled

migvars == <<db, pc, call, dataset_dict, writes, ops, done, hist, started, faults>>
srvvars == <<connected, attrs, handler, inbox, stores, log, reply>>
vars == <<migvars, srvvars>>

Procs == {1, 2}
Kinds == {"up", "down"}
NoCall == [kind |-> "none", name |-> "none", pre |-> <<>>]

\* One store operation as a call issues it.
Op(op, coll, write) == [op |-> op, coll |-> coll, write |-> write]

\* The call of p ends (returns, or raises error) with the store as newdb.
End(p, result, error, newdb, newops) ==
  /\ db' = newdb
  /\ hist' = Append(hist, [proc |-> p, kind |-> call[p].kind, name |-> call[p].name,
                           result |-> result, error |-> error,
                           pre |-> call[p].pre, post |-> newdb, ops |-> newops])
  /\ pc' = [pc EXCEPT ![p] = "idle"]
  /\ call' = [call EXCEPT ![p] = NoCall]
  /\ dataset_dict' = [dataset_dict EXCEPT ![p] = None]
  /\ writes' = [writes EXCEPT ![p] = <<>>]
  /\ ops' = [ops EXCEPT ![p] = <<>>]
  /\ done' = [done EXCEPT ![p] = 0]
  /\ UNCHANGED srvvars

\* The call of p goes on to its next store operation.
Goto(p, next, newdb, newdict, newwrites, newops) ==
  /\ db' = newdb
  /\ pc' = [pc EXCEPT ![p] = next]
  /\ dataset_dict' = [dataset_dict EXCEPT ![p] = newdict]
  /\ writes' = [writes EXCEPT ![p] = newwrites]
  /\ ops' = [ops EXCEPT ![p] = newops]
  /\ done' = [done EXCEPT ![p] = 0]
  /\ UNCHANGED <<call, hist>>
  /\ UNCHANGED srvvars

\* The pending update_many or bulk_write of p has changed one more document:
\* the store applies such an operation one document at a time, and the
\* operations of other callers may come in between.
Progress(p, newdb) ==
  /\ db' = newdb
  /\ done' = [done EXCEPT ![p] = done[p] + 1]
  /\ UNCHANGED <<pc, call, dataset_dict, writes, ops, hist>>
  /\ UNCHANGED srvvars

\* up(db, name) or down(db, name) is entered.
Enter(p, kind, name) ==
  /\ pc[p] = "idle"
  /\ pc' = [pc EXCEPT ![p] = "find_one"]
  /\ call' = [call EXCEPT ![p] = [kind |-> kind, name |-> name, pre |-> db]]
  /\ started' = Append(started, [proc |-> p, kind |-> kind, name |-> name, pre |-> db])
  /\ UNCHANGED <<db, dataset_dict, writes, ops, done, hist, faults>>
  /\ UNCHANGED srvvars

\* ------------------------------------------------------------- the state server
\* fiftyone/server/main.py: the StateController namespace.

\* update events received in a run.
MaxUpdates == 2

\* The sessions that may connect to the namespace: a sender and another one.
Sessions == {1, 2}

\* Lines 41-48: the class attributes of StateController.
InitialState ==
  [dataset_name |-> "None", query |-> "None", view_tag |-> "None", samples |-> <<>>]
ClassAttrs == [state |-> InitialState, it |-> None, ds |-> None]

\* The states a client may send: with a dataset name, with None or the empty
\* string for it, and without the key.
StateFor(dn) ==
  [dataset_name |-> dn, query |-> "None", view_tag |-> "None", samples |-> <<>>]
Payloads ==
  {StateFor(dn) : dn \in {"a", "b", "None", ""}}
    \cup {[query |-> "None", view_tag |-> "None", samples |-> <<>>]}

\* Mutant of Truthy: the test is "is not None", which lets the empty string by.
IsNotNone(x) == x # "None"

\* Line 60: Python's truth value of state["dataset_name"].
Truthy(x) == x \notin {"None", ""}

\* Mutant of InstanceFor: one controller per connection.
InstancePerSession(sid) == sid

\* Line 81: one StateController instance is registered for the namespace and
\* handles the events of every session.
InstanceFor(sid) == 0

Instances == {0} \cup Sessions

\* self.<name>: the instance attribute, or the class attribute when the
\* instance has none (lines 41-48, 68).
GetAttr(a, inst, name) ==
  IF name \in DOMAIN a[inst] THEN a[inst][name] ELSE ClassAttrs[name]

\* self.<name> = value (lines 61-63).
SetAttr(a, inst, name, value) == [a EXCEPT ![inst] = Set(a[inst], name, value)]

\* Mutant of EmitTargets: include_self is left at its default, True.
EmitTargetsWithSelf(conn, sid) == conn

\* Line 64: broadcast=True, include_self=False.
EmitTargets(conn, sid) == conn \ {sid}

\* Mutant of on_update_next: the state is stored before the dataset is
\* resolved.
on_update_store_first(step) ==
  CASE step = "test" -> "store"
    [] step = "store" -> "dataset"
    [] step = "dataset" -> "iter"
    [] step = "iter" -> "set_it"
    [] step = "set_it" -> "emit"
    [] step = "emit" -> "idle"

\* Lines 60-64: the statements of on_update in program order.
on_update_next(step) ==
  CASE step = "test" -> "dataset"
    [] step = "dataset" -> "iter"
    [] step = "iter" -> "set_it"
    [] step = "set_it" -> "store"
    [] step = "store" -> "emit"
    [] step = "emit" -> "idle"

\* An on_update call as it is entered by session s with state st. It is the
\* last update to arrive, "alone" if no other call is in progress and
\* "overlap" otherwise, until the next one arrives ("no").
Entered(s, st, last) ==
  [pc |-> "test", sid |-> s, state |-> st, last |-> last, iterator |-> None,
   stored |-> FALSE, emitted |-> FALSE, sent_to |-> {}]

\* The call or log record r is no longer the last update to arrive.
Earlier(r) == [r EXCEPT !.last = "no"]

\* No reply is being sent: the last event was not get_current_state.
NoReply == [sid |-> 0, state |-> None, after |-> 0, nstored |-> 0, idle |-> TRUE]

\* The on_update calls in progress; calls in the same position for the same
\* session and state are not told apart.
Handlers == BagToSet(handler)

AllIdle == handler = EmptyBag

\* The sessions other than the sender that are connected when a call of the
\* sender returns; it is not recorded for a call that raises.
OthersAt(sid, outcome) == IF outcome = "returned" THEN connected \ {sid} ELSE {}

\* The on_update call h ends, as h2: its record goes to the log.
Finish(h, h2, outcome, error) ==
  /\ log' = Append(log, [sid |-> h2.sid, state |-> h2.state, last |-> h2.last,
                         outcome |-> outcome,
                         error |-> error, stored |-> h2.stored, emitted |-> h2.emitted,
                         sent_to |-> h2.sent_to, others |-> OthersAt(h2.sid, outcome)])
  /\ handler' = handler (-) SetToBag({h})

\* The on_update call h, now h2, goes on to its next statement, or returns.
Advance(h, h2) ==
  IF on_update_next(h2.pc) = "idle"
  THEN Finish(h, h2, "returned", "none")
  ELSE /\ handler' = (handler (-) SetToBag({h}))
                       (+) SetToBag({[h2 EXCEPT !.pc = on_update_next(h2.pc)]})
       /\ UNCHANGED log

\* The update events received so far.
Received == Len(log) + BagCardinality(handler)

\* Lines 50-52: a session connects.
Connect(s) ==
  /\ s \notin connected
  /\ connected' = connected \cup {s}
  /\ reply' = NoReply
  /\ UNCHANGED <<attrs, handler, inbox, stores, log, migvars>>

\* Lines 54-56: a session disconnects; a handler of one of its events that is
\* in progress goes on.
Disconnect(s) ==
  /\ s \in connected
  /\ connected' = connected \ {s}
  /\ reply' = NoReply
  /\ UNCHANGED <<attrs, handler, inbox, stores, log, migvars>>

\* The calls in progress and the ended ones when a new update arrives: none
\* of them is the last to arrive any more.
EarlierCalls ==
  LET was == {h \in Handlers : h.last # "no"}
  IN IF was = {} THEN handler
     ELSE (handler (-) SetToBag(was)) (+) SetToBag({Earlier(h) : h \in was})

EarlierLog == [i \in 1..Len(log) |-> Earlier(log[i])]

\* Lines 58-60: an update event of session s arrives with state st and
\* on_update is entered for it, whatever calls are in progress; it tests
\* state["dataset_name"], which is a KeyError without the key and the end of
\* the call for None or an empty name. The test reads nothing but the
\* argument, so it is one step with the entry.
Receive(s, st) ==
  /\ s \in connected
  /\ Received < MaxUpdates
  /\ LET new == Entered(s, st, IF handler = EmptyBag THEN "alone" ELSE "overlap")
         Ended(outcome, error) ==
           [sid |-> s, state |-> st, last |-> new.last, outcome |-> outcome,
            error |-> error, stored |-> FALSE, emitted |-> FALSE, sent_to |-> {},
            others |-> OthersAt(s, outcome)]
     IN IF ~HasKey(st, "dataset_name")
        THEN /\ log' = Append(EarlierLog, Ended("raised", "KeyError"))
             /\ handler' = EarlierCalls
        ELSE IF ~Truthy(st.dataset_name)
        THEN /\ log' = Append(EarlierLog, Ended("returned", "none"))
             /\ handler' = EarlierCalls
        ELSE /\ log' = EarlierLog
             /\ handler' = EarlierCalls
                             (+) SetToBag({[new EXCEPT !.pc = on_update_next("test")]})
  /\ reply' = NoReply
  /\ UNCHANGED <<connected, attrs, inbox, stores, migvars>>

\* Line 61: self.ds = fod.Dataset(state["dataset_name"]), which may raise. The
\* call reads nothing but its argument, so the call and the assignment are one
\* step, taken at the time of the assignment.
MakeDataset(h) ==
  /\ h.pc = "dataset"
  /\ \/ /\ Finish(h, h, "raised", "DatasetError")
        /\ UNCHANGED attrs
     \/ /\ attrs' = SetAttr(attrs, InstanceFor(h.sid), "ds",
                           [dataset |-> h.state.dataset_name])
        /\ Advance(h, h)
  /\ reply' = NoReply
  /\ UNCHANGED <<connected, inbox, stores, migvars>>

\* Line 62, right-hand side: query.Query([]).iter_samples(self.ds) reads
\* self.ds and returns an iterator over it, or raises. Handlers of other events
\* may run before the result is assigned.
MakeIter(h) ==
  /\ h.pc = "iter"
  /\ \/ Finish(h, h, "raised", "QueryError")
     \/ Advance(h, [h EXCEPT !.iterator =
                      [iter_samples |-> GetAttr(attrs, InstanceFor(h.sid), "ds")]])
  /\ reply' = NoReply
  /\ UNCHANGED <<connected, attrs, inbox, stores, migvars>>

\* Line 62, assignment: self.it = <the iterator>.
SetIter(h) ==
  /\ h.pc = "set_it"
  /\ attrs' = SetAttr(attrs, InstanceFor(h.sid), "it", h.iterator)
  /\ Advance(h, h)
  /\ reply' = NoReply
  /\ UNCHANGED <<connected, inbox, stores, migvars>>

\* Line 63: self.state = state.
StoreState(h) ==
  /\ h.pc = "store"
  /\ attrs' = SetAttr(attrs, InstanceFor(h.sid), "state", h.state)
  /\ Advance(h, [h EXCEPT !.stored = TRUE])
  /\ stores' = Append(stores, [sid |-> h.sid, state |-> h.state])
  /\ reply' = NoReply
  /\ UNCHANGED <<connected, inbox, migvars>>

\* Line 64: emit("update", state, broadcast=True, include_self=False).
Emit(h) ==
  /\ h.pc = "emit"
  /\ inbox' = [t \in Sessions |->
                 IF t \in EmitTargets(connected, h.sid)
                 THEN Append(inbox[t], h.state) ELSE inbox[t]]
  /\ Advance(h, [h EXCEPT !.emitted = TRUE,
                          !.sent_to = {t \in Sessions : inbox'[t] # inbox[t]}])
  /\ reply' = NoReply
  /\ UNCHANGED <<connected, attrs, stores, migvars>>

\* Lines 66-68: get_current_state of session s is answered with self.state.
GetCurrentState(s) ==
  /\ s \in connected
  /\ reply' = [sid |-> s, state |-> GetAttr(attrs, InstanceFor(s), "state"),
               after |-> Len(log), nstored |-> Len(stores), idle |-> AllIdle]
  /\ UNCHANGED <<connected, attrs, handler, inbox, stores, log, migvars>>

HandlerStep(h) ==
  \/ MakeDataset(h)
  \/ MakeIter(h)
  \/ SetIter(h)
  \/ StoreState(h)
  \/ Emit(h)

\* The server before any event.
InitController ==
  /\ connected = {}
  /\ attrs = [i \in Instances |-> <<>>]
  /\ handler = EmptyBag
  /\ inbox = [s \in Sessions |-> <<>>]
  /\ stores = <<>>
  /\ log = <<>>
  /\ reply = NoReply

\* The driver calls up or down, one call after the other.
Call(p, kind, name) ==
  /\ p = 1
  /\ Len(started) < MaxCalls
  /\ Enter(p, kind, name)

\* Lines 12-23 of up and 30-44 of down: the descriptor is read, the call
\* returns at once for a dataset that is not a video, and otherwise prepares
\* the new descriptor.
FindOne(p) ==
  /\ pc[p] = "find_one"
  /\ LET d == find_one(db["datasets"], call[p].name)
         o == Append(ops[p], Op("find_one", "datasets", FALSE))
     IN IF d = None
        THEN End(p, "raised", "TypeError", db, o)
        ELSE IF ~HasKey(d, "media_type")
        THEN End(p, "raised", "KeyError", db, o)
        ELSE IF NotVideo(d)
        THEN End(p, "returned", "none", db, o)
        ELSE IF ~HasKey(d, "sample_fields")
        THEN End(p, "raised", "KeyError", db, o)
        ELSE IF call[p].kind = "up"
        THEN Goto(p, "replace_one", db, UpDict(d), <<>>, o)
        ELSE IF ~HasKey(d, "sample_collection_name")
        THEN End(p, "raised", "KeyError", db, o)
        ELSE Goto(p, "find", db, DownDict(d), <<>>, o)
  /\ UNCHANGED <<started, faults>>

\* Lines 24-25 of up: the descriptor is replaced, then the sample collection
\* is looked up in it.
ReplaceOne(p) ==
  /\ pc[p] = "replace_one"
  /\ LET newdb == [db EXCEPT !["datasets"] =
                     replace_one(db["datasets"], call[p].name, dataset_dict[p])]
         o == Append(ops[p], Op("replace_one", "datasets", TRUE))
     IN IF ~HasKey(dataset_dict[p], "sample_collection_name")
        THEN End(p, "raised", "KeyError", newdb, o)
        ELSE Goto(p, "update_many", newdb, dataset_dict[p], <<>>, o)
  /\ UNCHANGED <<started, faults>>

\* Line 26 of up: frames is unset on every document of the sample collection,
\* one document at a time; up returns after the last one.
UpdateMany(p) ==
  /\ pc[p] = "update_many"
  /\ LET c == DictSampleColl(dataset_dict[p])
         i == done[p] + 1
         o == Append(ops[p], Op("update_many", c, TRUE))
     IN IF i > Len(db[c])
        THEN End(p, "returned", "none", db, o)
        ELSE LET newdb == [db EXCEPT ![c][i] = update_many_unset(db[c], "frames")[i]]
             IN IF i = Len(db[c])
                THEN End(p, "returned", "none", newdb, o)
                ELSE Progress(p, newdb)
  /\ UNCHANGED <<started, faults>>

\* Lines 46-54 of down: the first frames are read and one UpdateOne is built
\* for each; a first frame without _sample_id is a KeyError.
Find(p) ==
  /\ pc[p] = "find"
  /\ LET c == DownFrameColl(dataset_dict[p])
         first_frames == find_first_frames(db[c])
         o == Append(ops[p], Op("find", c, FALSE))
     IN IF \E i \in Idx(first_frames) : ~HasKey(first_frames[i], "_sample_id")
        THEN End(p, "raised", "KeyError", db, o)
        ELSE Goto(p, "bulk_write", db, dataset_dict[p], DownWrites(first_frames), o)
  /\ UNCHANGED <<started, faults>>

\* Line 56 of down: the writes are submitted; pymongo raises InvalidOperation
\* ("No operations to execute") for an empty list. The store applies the
\* operations of an ordered bulk write in order, one at a time.
BulkWrite(p) ==
  /\ pc[p] = "bulk_write"
  /\ LET c == DictSampleColl(dataset_dict[p])
         i == done[p] + 1
         o == Append(ops[p], Op("bulk_write", c, TRUE))
     IN IF writes[p] = <<>>
        THEN End(p, "raised", "InvalidOperation", db, o)
        ELSE LET newdb == [db EXCEPT ![c] = bulk_write(db[c], <<writes[p][i]>>)]
             IN IF i = Len(writes[p])
                THEN Goto(p, "aggregate", newdb, dataset_dict[p], writes[p], o)
                ELSE Progress(p, newdb)
  /\ UNCHANGED <<started, faults>>

\* Lines 58-63 of down: the grouping aggregation, whose result is dropped.
\* The pipeline is passed as a document, not a list: pymongo 3 raises
\* TypeError for it, a driver that wraps a single stage returns the groups.
Aggregate(p) ==
  /\ pc[p] = "aggregate"
  /\ LET o == Append(ops[p], Op("aggregate", DownFrameColl(dataset_dict[p]), FALSE))
     IN \/ End(p, "raised", "TypeError", db, o)
        \/ End(p, "returned", "none", db, o)
  /\ UNCHANGED <<started, faults>>

\* The collection the pending store operation of p addresses.
PendingColl(p) ==
  IF pc[p] \in {"find_one", "replace_one"} THEN "datasets"
  ELSE DictSampleColl(dataset_dict[p])

\* A store operation fails (the store is unreachable): before it takes effect
\* or, for update_many, after some of the documents were changed.
Fault(p) ==
  /\ pc[p] \in {"find_one", "replace_one", "update_many", "find", "aggregate"}
  /\ faults < MaxFaults
  /\ faults' = faults + 1
  /\ End(p, "raised", "StoreError", db,
         Append(ops[p], Op(pc[p], PendingColl(p), pc[p] \in {"replace_one", "update_many"})))
  /\ UNCHANGED started

\* The ordered bulk write fails at one of its operations: those before it
\* have been applied (BulkWriteError).
BulkWriteFault(p) ==
  /\ pc[p] = "bulk_write"
  /\ writes[p] # <<>>
  /\ faults < MaxFaults
  /\ faults' = faults + 1
  /\ End(p, "raised", "BulkWriteError", db,
         Append(ops[p], Op("bulk_write", DictSampleColl(dataset_dict[p]), TRUE)))
  /\ UNCHANGED started

Step(p) ==
  \/ FindOne(p)
  \/ ReplaceOne(p)
  \/ UpdateMany(p)
  \/ Find(p)
  \/ BulkWrite(p)
  \/ Aggregate(p)
  \/ Fault(p)
  \/ BulkWriteFault(p)

\* ------------------------------------------------------------- specification
\* The driver migrates dataset a, which starts in any of its states; dataset b
\* is another video dataset of the same store, at the current schema.
Migrated == {"a"}

InitStores ==
  {Store([a |-> ka, b |-> "video"], [a |-> s, b |-> "frames"], [a |-> t, b |-> "frames"],
         [a |-> w, b |-> 1..MaxSamples]) :
     ka \in DescKinds, s \in SampleShapes, t \in SampleShapes, w \in FrameChoices}

InitLocals ==
  /\ pc = [p \in Procs |-> "idle"]
  /\ call = [p \in Procs |-> NoCall]
  /\ dataset_dict = [p \in Procs |-> None]
  /\ writes = [p \in Procs |-> <<>>]
  /\ ops = [p \in Procs |-> <<>>]
  /\ done = [p \in Procs |-> 0]
  /\ hist = <<>>
  /\ started = <<>>
  /\ faults = 0

Init ==
  /\ db \in InitStores
  /\ InitLocals
  /\ InitController

Next ==
  \E p \in Procs :
    \/ \E kind \in Kinds, name \in Migrated : Call(p, kind, name)
    \/ Step(p)

Spec == Init /\ [][Next]_vars

\* ------------------------------------------------------------- concurrent callers
\* Two callers, one call each, whose store operations interleave; the store
\* answers every operation.
CallConc(p, kind, name) ==
  /\ \A i \in Idx(started) : started[i].proc # p
  /\ Enter(p, kind, name)

StepConc(p) ==
  \/ FindOne(p)
  \/ ReplaceOne(p)
  \/ UpdateMany(p)
  \/ Find(p)
  \/ BulkWrite(p)
  \/ Aggregate(p)

\* Both datasets start as video or image datasets.
InitStoresConc ==
  {Store([a |-> ka, b |-> kb], [a |-> sa, b |-> sb], [a |-> "frames", b |-> "plain"],
         [a |-> 1..MaxSamples, b |-> {1}]) :
     ka \in {"video", "video_up", "image"}, kb \in {"video", "video_mid", "image"},
     sa \in SampleShapes, sb \in SampleShapes}

InitConc ==
  /\ db \in InitStoresConc
  /\ InitLocals
  /\ InitController

NextConc ==
  \E p \in Procs :
    \/ \E kind \in Kinds, name \in Names : CallConc(p, kind, name)
    \/ StepConc(p)

SpecConc == InitConc /\ [][NextConc]_vars

\* ------------------------------------------------------------- server specifications
\* The store the server runs against. The handlers reach the database only
\* through fod.Dataset and iter_samples (lines 61-62), whose outcomes are a
\* choice in MakeDataset and MakeIter, and they write no collection: the
\* server starts on the empty store and leaves it as it is.
ServerStore == [c \in Colls |-> <<>>]

InitServer ==
  /\ db = ServerStore
  /\ InitLocals
  /\ InitController

\* Every event is handled as it arrives: the statements of the handlers of
\* different events interleave.
NextServerConc ==
  \/ \E s \in Sessions :
       \/ Connect(s)
       \/ Disconnect(s)
       \/ \E st \in Payloads : Receive(s, st)
       \/ GetCurrentState(s)
  \/ \E h \in Handlers : HandlerStep(h)

SpecServerConc == InitServer /\ [][NextServerConc]_vars

\* ------------------------------------------------------------- whole calls
\* up(db, name), lines 11-26, run from store d with no other caller and no
\* store failure: the store it leaves.
UpRun(d, n) ==
  LET x == find_one(d["datasets"], n)
  IN IF x = None \/ ~HasKey(x, "media_type") THEN d
     ELSE IF NotVideo(x) \/ ~HasKey(x, "sample_fields") THEN d
     ELSE LET d1 == [d EXCEPT !["datasets"] = replace_one(d["datasets"], n, UpDict(x))]
          IN IF ~HasKey(x, "sample_collection_name") THEN d1
             ELSE [d1 EXCEPT ![DictSampleColl(x)] =
                     update_many_unset(d1[DictSampleColl(x)], "frames")]

\* down(db, name), lines 29-63, run from store d with no other caller and no
\* store failure: the store it leaves.
DownRun(d, n) ==
  LET x == find_one(d["datasets"], n)
  IN IF x = None \/ ~HasKey(x, "media_type") THEN d
     ELSE IF NotVideo(x) \/ ~HasKey(x, "sample_fields") THEN d
     ELSE IF ~HasKey(x, "sample_collection_name") THEN d
     ELSE LET first_frames == find_first_frames(d[DownFrameColl(x)])
          IN IF \E i \in Idx(first_frames) : ~HasKey(first_frames[i], "_sample_id")
             THEN d
             ELSE [d EXCEPT ![DictSampleColl(x)] =
                     bulk_write(d[DictSampleColl(x)], DownWrites(first_frames))]

Run(kind, d, n) == IF kind = "up" THEN UpRun(d, n) ELSE DownRun(d, n)

\* ------------------------------------------------------------- reading a store
\* The descriptor of dataset n in store d (None without one).
Desc(d, n) ==
  LET named == {i \in Idx(d["datasets"]) :
                  HasKey(d["datasets"][i], "name") /\ d["datasets"][i].name = n}
  IN IF named = {} THEN None ELSE d["datasets"][CHOOSE i \in named : TRUE]

HasDesc(d, n) == Desc(d, n) # None

HasMediaType(d, n) == HasDesc(d, n) /\ HasKey(Desc(d, n), "media_type")

\* Dataset n of store d is a video dataset with a complete descriptor.
IsVideo(d, n) ==
  /\ HasMediaType(d, n)
  /\ Desc(d, n).media_type = "video"
  /\ HasKey(Desc(d, n), "sample_fields")
  /\ HasKey(Desc(d, n), "sample_collection_name")

\* Dataset n of store d has a media_type other than video.
IsNotVideo(d, n) == HasMediaType(d, n) /\ Desc(d, n).media_type # "video"

\* The descriptor of n lists a field named frames.
HasFramesField(d, n) ==
  /\ HasDesc(d, n)
  /\ HasKey(Desc(d, n), "sample_fields")
  /\ \E i \in Idx(Desc(d, n).sample_fields) : Desc(d, n).sample_fields[i].name = "frames"

\* Some sample document of n carries the key frames.
SomeSampleHasFrames(d, n) ==
  \E i \in Idx(d[SampleColl[n]]) : HasKey(d[SampleColl[n]][i], "frames")

\* The frame documents of sample document s in store d.
FramesOf(d, n, s) ==
  {d[FrameColl[n]][j] : j \in {j \in Idx(d[FrameColl[n]]) : d[FrameColl[n]][j]._sample_id = s._id}}

\* No sample document of n has a field of its own called frame_number.
PlainSamples(d, n) ==
  \A i \in Idx(d[SampleColl[n]]) : ~HasKey(d[SampleColl[n]][i], "frame_number")

\* Descriptor and documents of n agree about frames: a descriptor without the
\* frames field goes with sample documents without a frames key.
Consistent(d, n) == HasFramesField(d, n) \/ ~SomeSampleHasFrames(d, n)

\* The store answered every operation of the call.
NoStoreFault(h) == h.error \notin {"StoreError", "BulkWriteError"}

Writes(h) == {i \in Idx(h.ops) : h.ops[i].write}

Calls == {hist[i] : i \in Idx(hist)}

\* ------------------------------------------------------------- claims
\* C1: up and down on a dataset whose media_type is not video change nothing:
\* the whole store (descriptor, sample and frame documents) is as before the
\* call, no write operation has been issued, and the call returns unless the
\* store failed its one read.
C1_NotVideoNoOp ==
  \A h \in Calls :
    IsNotVideo(h.pre, h.name) =>
      /\ h.post = h.pre
      /\ Writes(h) = {}
      /\ (NoStoreFault(h) => h.result = "returned")

\* C1 witness: an up and a down have both returned on a dataset that is not a
\* video and whose sample documents carry frames.
C1_Witness ==
  \E h1, h2 \in Calls :
    /\ h1.kind = "up" /\ h2.kind = "down" /\ h1.name = h2.name
    /\ IsNotVideo(h1.pre, h1.name) /\ IsNotVideo(h2.pre, h2.name)
    /\ h1.result = "returned" /\ h2.result = "returned"
    /\ SomeSampleHasFrames(h1.pre, h1.name)

\* The postcondition C2 gives for down on dataset n, in store d: a sample with
\* frame documents has frames.first_frame equal to its frame 1, a sample with
\* none has no frames key.
FirstFramesRestored(d, n) ==
  \A i \in Idx(d[SampleColl[n]]) :
    LET s == d[SampleColl[n]][i]
    IN IF FramesOf(d, n, s) = {}
       THEN ~HasKey(s, "frames")
       ELSE /\ HasKey(s, "frames")
            /\ HasKey(s.frames, "first_frame")
            /\ \E f \in FramesOf(d, n, s) :
                 f.frame_number = 1 /\ s.frames.first_frame = f

\* C2 (as claimed): after a down on a video dataset during which the store
\* answered every operation, every sample with frame documents has
\* frames.first_frame equal to its frame with frame_number 1, and every sample
\* without frame documents has no frames key (stated for datasets whose sample
\* documents have no frame_number field of their own).
C2_DownRestoresFirstFrames ==
  \A h \in Calls :
    (/\ h.kind = "down" /\ IsVideo(h.pre, h.name) /\ NoStoreFault(h)
     /\ PlainSamples(h.pre, h.name)) =>
      FirstFramesRestored(h.post, h.name)

\* C3 (as claimed): after up and then down on a video dataset, both answered
\* by the store throughout, the persisted descriptor lists a field named
\* frames again (stated for datasets whose sample documents have no
\* frame_number field of their own).
C3_UpDownRestoresFramesField ==
  \A i \in Idx(hist) :
    (/\ i < Len(hist)
     /\ hist[i].kind = "up" /\ hist[i + 1].kind = "down"
     /\ hist[i].name = hist[i + 1].name
     /\ IsVideo(hist[i].pre, hist[i].name)
     /\ hist[i].result = "returned"
     /\ NoStoreFault(hist[i + 1])
     /\ PlainSamples(hist[i].pre, hist[i].name)) =>
      HasFramesField(hist[i + 1].post, hist[i].name)

\* C4: after up has returned on a video dataset, the persisted descriptor
\* lists no field named frames and no document of the sample collection has a
\* frames key.
C4_UpRemovesFrames ==
  \A h \in Calls :
    (h.kind = "up" /\ IsVideo(h.pre, h.name) /\ h.result = "returned") =>
      /\ ~HasFramesField(h.post, h.name)
      /\ ~SomeSampleHasFrames(h.post, h.name)

\* C4 witness: up has returned on a video dataset that listed the frames field
\* and had a sample document with a frames key.
C4_Witness ==
  \E h \in Calls :
    /\ h.kind = "up" /\ IsVideo(h.pre, h.name) /\ h.result = "returned"
    /\ HasFramesField(h.pre, h.name)
    /\ SomeSampleHasFrames(h.pre, h.name)

\* C5: up is idempotent: when up is called twice in a row on a dataset and the
\* store answered every operation of the first call, the store after the
\* second call is the store after the first.
C5_UpIdempotent ==
  \A i \in Idx(hist) :
    (/\ i < Len(hist)
     /\ hist[i].kind = "up" /\ hist[i + 1].kind = "up"
     /\ hist[i].name = hist[i + 1].name
     /\ NoStoreFault(hist[i])) =>
      hist[i + 1].post = hist[i].post

\* C5 witness: two ups in a row have returned on a video dataset, and the
\* first one changed both the descriptor and the sample documents.
C5_Witness ==
  \E i \in Idx(hist) :
    /\ i < Len(hist)
    /\ hist[i].kind = "up" /\ hist[i + 1].kind = "up"
    /\ hist[i].name = hist[i + 1].name
    /\ hist[i].result = "returned" /\ hist[i + 1].result = "returned"
    /\ HasFramesField(hist[i].pre, hist[i].name)
    /\ SomeSampleHasFrames(hist[i].pre, hist[i].name)
    /\ Len(hist[i + 1].ops) = 3

\* C6 (as claimed): when up or down raises on a dataset whose descriptor and
\* documents agreed about frames, they still agree afterwards: it is never the
\* case that the descriptor lists no frames field while a sample document
\* carries a frames key.
C6_FailureLeavesConsistent ==
  \A h \in Calls :
    (/\ h.result = "raised"
     /\ IsVideo(h.pre, h.name)
     /\ PlainSamples(h.pre, h.name)
     /\ Consistent(h.pre, h.name)) =>
      Consistent(h.post, h.name)

\* C7 (as claimed): when down on a video dataset finds no document with
\* frame_number 1, in the sample collection or in the frame collection, and
\* the store answers every operation, no bulk write is submitted, down
\* returns, and the store is as before the call.
C7_EmptyBulkWriteTolerated ==
  \A h \in Calls :
    (/\ h.kind = "down" /\ IsVideo(h.pre, h.name) /\ NoStoreFault(h)
     /\ find_first_frames(h.pre[SampleColl[h.name]]) = <<>>
     /\ find_first_frames(h.pre[FrameColl[h.name]]) = <<>>) =>
      /\ h.result = "returned"
      /\ \A i \in Idx(h.ops) : h.ops[i].op # "bulk_write"
      /\ h.post = h.pre

\* What C8 allows a run to change between store d and store e: no document
\* appears or disappears, frame documents and descriptors of other kinds of
\* collection aside, a sample document differs at most in its frames key.
OnlyFramesKeyChanged(d, e) ==
  \A n \in Names :
    /\ e[FrameColl[n]] = d[FrameColl[n]]
    /\ Len(e[SampleColl[n]]) = Len(d[SampleColl[n]])
    /\ \A i \in Idx(d[SampleColl[n]]) :
         Unset(e[SampleColl[n]][i], "frames") = Unset(d[SampleColl[n]][i], "frames")

\* C8: at every point of every sequence of up and down calls, failed ones
\* included, the sample and frame collections hold the documents they held at
\* the start, the frame documents are unmodified, and a sample document
\* differs from what it was at most in its frames key.
C8_OnlyFramesKeyTouched ==
  started # <<>> => OnlyFramesKeyChanged(started[1].pre, db)

\* C8 witness: after a down and an up, a sample document that had no frames
\* key has one and sample documents have changed.
C8_Witness ==
  /\ Len(hist) = 2
  /\ hist[1].kind = "down" /\ hist[2].kind = "up"
  /\ hist[1].post # hist[1].pre
  /\ hist[2].post # hist[2].pre
  /\ \E n \in Names : \E i \in Idx(db[SampleColl[n]]) :
       HasKey(hist[1].post[SampleColl[n]][i], "frames")
         /\ ~HasKey(hist[1].pre[SampleColl[n]][i], "frames")

\* C9: up and down on a name without a descriptor, or with a descriptor that
\* lacks media_type, raise, have issued no write, and leave the whole store as
\* it was.
C9_MissingMediaTypeFailsBeforeWrite ==
  \A h \in Calls :
    ~HasMediaType(h.pre, h.name) =>
      /\ h.result = "raised"
      /\ Writes(h) = {}
      /\ h.post = h.pre

\* C9 witness: an up and a down have raised KeyError on a dataset whose
\* descriptor lacks media_type.
C9_Witness ==
  \E h1, h2 \in Calls :
    /\ h1.kind = "up" /\ h2.kind = "down" /\ h1.name = h2.name
    /\ HasDesc(h1.pre, h1.name) /\ ~HasMediaType(h1.pre, h1.name)
    /\ h1.error = "KeyError" /\ h2.error = "KeyError"

\* C9 witness for the other case: a call has raised TypeError on a name
\* without a descriptor.
C9_WitnessAbsent ==
  \E h \in Calls : ~HasDesc(h.pre, h.name) /\ h.error = "TypeError"

\* A call run alone, the store answering, leaves the store of UpRun/DownRun.
RunMatchesSteps ==
  \A h \in Calls : NoStoreFault(h) => h.post = Run(h.kind, h.pre, h.name)

\* The collections dataset n owns.
OwnColls(n) == {SampleColl[n], FrameColl[n]}

\* C10: two calls on different datasets, their store operations interleaved in
\* any way, leave the store that the two calls leave when run one after the
\* other, in either order; and every operation of a call addresses the
\* datasets catalog or a collection of its own dataset.
C10_DifferentDatasetsIndependent ==
  (Len(hist) = 2 /\ hist[1].name # hist[2].name) =>
    LET d0 == started[1].pre
        x == hist[1]
        y == hist[2]
    IN /\ db = Run(y.kind, Run(x.kind, d0, x.name), y.name)
       /\ db = Run(x.kind, Run(y.kind, d0, y.name), x.name)
       /\ \A h \in {x, y} : \A i \in Idx(h.ops) :
            h.ops[i].coll \in {"datasets"} \cup OwnColls(h.name)

\* C10 witness: an up on one video dataset and a down on another have both
\* changed the store, and the second to end was entered between two writes
\* of the first.
C10_Witness ==
  /\ Len(hist) = 2
  /\ hist[1].name # hist[2].name
  /\ hist[1].kind = "up" /\ hist[2].kind = "down"
  /\ hist[1].result = "returned"
  /\ hist[2].pre \notin {hist[1].pre, hist[1].post}
  /\ hist[2].post # hist[1].post
  /\ hist[1].pre = started[1].pre

\* The names of the fields a descriptor lists.
FieldNames(desc) == [i \in Idx(desc.sample_fields) |-> desc.sample_fields[i].name]

UniqueNames(names) ==
  \A i, j \in Idx(names) : names[i] = names[j] => i = j

\* C13: the persisted descriptors never list two fields of the same name, at
\* any point of any sequence of up and down calls.
C13_FieldNamesUnique ==
  \A i \in Idx(db["datasets"]) :
    HasKey(db["datasets"][i], "sample_fields") =>
      UniqueNames(FieldNames(db["datasets"][i]))

\* C13 witness: down has ended twice in a row on a video dataset that lists the
\* frames field, the second time after changing sample documents.
C13_Witness ==
  /\ Len(hist) = 2
  /\ hist[1].kind = "down" /\ hist[2].kind = "down"
  /\ IsVideo(hist[1].pre, hist[1].name)
  /\ HasFramesField(hist[1].pre, hist[1].name)
  /\ hist[1].post # hist[1].pre
  /\ Len(hist[2].ops) >= 3

\* A sequence of fields without those named frames, the others in their order.
RECURSIVE WithoutFrames(_)
WithoutFrames(fields) ==
  IF fields = <<>> THEN <<>>
  ELSE IF Head(fields).name = "frames" THEN WithoutFrames(Tail(fields))
  ELSE <<Head(fields)>> \o WithoutFrames(Tail(fields))

\* The descriptor of n as up is to leave it.
DescWithoutFrames(d, n) ==
  [Desc(d, n) EXCEPT !.sample_fields = WithoutFrames(Desc(d, n).sample_fields)]

\* C14: up on a video dataset writes the descriptor back with the fields named
\* frames removed and nothing else changed: the other fields in their order,
\* and name, media_type, sample_collection_name, frame_collection_name and
\* schema_version as they were. A returned up has written it; an up that
\* raised has written this descriptor or none.
C14_UpChangesOnlyFramesField ==
  \A h \in Calls :
    (h.kind = "up" /\ IsVideo(h.pre, h.name)) =>
      /\ Desc(h.post, h.name) \in {Desc(h.pre, h.name), DescWithoutFrames(h.pre, h.name)}
      /\ h.result = "returned" => Desc(h.post, h.name) = DescWithoutFrames(h.pre, h.name)
      /\ Len(h.post["datasets"]) = Len(h.pre["datasets"])

\* C14 witness: up has returned on a video dataset whose frames field stood
\* between two other fields.
C14_Witness ==
  \E h \in Calls :
    /\ h.kind = "up" /\ h.result = "returned" /\ IsVideo(h.pre, h.name)
    /\ FieldNames(Desc(h.pre, h.name)) = <<"filepath", "frames", "tags">>
    /\ FieldNames(Desc(h.post, h.name)) = <<"filepath", "tags">>

\* C15: every step of down leaves the datasets catalog alone; a sample
\* document that a step of down changes ends with a frames subdocument whose
\* only key is first_frame; and the aggregation step changes nothing in the
\* store, so the store after down is the same with and without it.
C15_DownWritesOnlyFirstFrame ==
  [][\A p \in Procs :
       (call[p].kind = "down" /\ pc'[p] # pc[p]) =>
         /\ db'["datasets"] = db["datasets"]
         /\ pc[p] = "aggregate" => db' = db
         /\ \A n \in Names : \A i \in Idx(db[SampleColl[n]]) :
              db'[SampleColl[n]][i] # db[SampleColl[n]][i] =>
                /\ HasKey(db'[SampleColl[n]][i], "frames")
                /\ DOMAIN db'[SampleColl[n]][i].frames = {"first_frame"}]_vars

\* C15 witness: a down has run its aggregation and returned after its bulk
\* write gave a sample document a frames subdocument.
C15_Witness ==
  \E h \in Calls :
    /\ h.kind = "down" /\ h.result = "returned"
    /\ h.ops[Len(h.ops)].op = "aggregate"
    /\ \E i \in Idx(h.post[SampleColl[h.name]]) :
         /\ ~HasKey(h.pre[SampleColl[h.name]][i], "frames")
         /\ HasKey(h.post[SampleColl[h.name]][i], "frames")

\* C16 (as claimed): a call that has changed sample documents, the store
\* answering every operation, issued a replace_one on the datasets catalog
\* before its first write to the sample collection.
C16_DescriptorWrittenFirst ==
  \A h \in Calls :
    (NoStoreFault(h) /\ h.post[SampleColl[h.name]] # h.pre[SampleColl[h.name]]) =>
      \E i, j \in Idx(h.ops) :
        /\ i < j
        /\ h.ops[i].op = "replace_one"
        /\ h.ops[j].op \in {"update_many", "bulk_write"}
        /\ \A k \in Idx(h.ops) : h.ops[k].op \in {"update_many", "bulk_write"} => j <= k

\* The store up is to leave when run on dataset n of store d.
StoreAfterUp(d, n) ==
  [c \in Colls |->
     IF c = "datasets"
     THEN [i \in Idx(d[c]) |->
             IF d[c][i].name = n THEN DescWithoutFrames(d, n) ELSE d[c][i]]
     ELSE IF c = SampleColl[n]
     THEN [i \in Idx(d[c]) |-> Unset(d[c][i], "frames")]
     ELSE d[c]]

\* C18: two ups on the same video dataset, their store operations interleaved
\* in any way, both return and leave the store a single up leaves: descriptor
\* without the frames field, no sample document with a frames key, everything
\* else as it was.
C18_ConcurrentUpsAsOne ==
  (/\ Len(hist) = 2
   /\ hist[1].kind = "up" /\ hist[2].kind = "up"
   /\ hist[1].name = hist[2].name
   /\ IsVideo(started[1].pre, hist[1].name)) =>
    /\ hist[1].result = "returned" /\ hist[2].result = "returned"
    /\ db = StoreAfterUp(started[1].pre, hist[1].name)
    /\ db = UpRun(started[1].pre, hist[1].name)

\* C18 witness: two ups on a video dataset with the frames field and frames
\* keys have both ended, each entered before the other had written anything.
C18_Witness ==
  /\ Len(hist) = 2
  /\ hist[1].kind = "up" /\ hist[2].kind = "up"
  /\ hist[1].name = hist[2].name
  /\ HasFramesField(started[1].pre, hist[1].name)
  /\ SomeSampleHasFrames(started[1].pre, hist[1].name)
  /\ hist[1].pre = started[1].pre /\ hist[2].pre = started[1].pre
  /\ hist[2].post = hist[1].post

\* ------------------------------------------------------------- claims on the server

\* An ended update event carried a dataset name that is neither None nor
\* empty, and its handler returned without raising.
Accepted(rec) ==
  /\ HasKey(rec.state, "dataset_name")
  /\ rec.state.dataset_name # "None"
  /\ rec.state.dataset_name # ""
  /\ rec.outcome = "returned"

\* The state of the last accepted update among the first n ended ones, the
\* initial state when there is none.
LastAccepted(n) ==
  LET acc == {i \in 1..n : Accepted(log[i])}
  IN IF acc = {} THEN InitialState
     ELSE log[CHOOSE i \in acc : \A j \in acc : j <= i].state

\* C11 as stated: get_current_state returns the state carried by the most
\* recently received update event, and the initial state if no update was
\* received. Only replies are looked at that were given when at most one
\* update had been received, its handler had returned and none was running,
\* so that the order of arrival is not in doubt.
C11_ReturnsLastReceived ==
  (/\ reply # NoReply
   /\ reply.idle
   /\ reply.after <= 1
   /\ \A i \in 1..reply.after : log[i].outcome = "returned") =>
    reply.state = IF reply.after = 0 THEN InitialState ELSE log[reply.after].state

\* C11, amended: get_current_state returns the state carried by the update
\* event that was stored last, where an update is stored only if its
\* dataset_name is neither None nor empty and its handler does not raise, and
\* the initial state (dataset_name None, no samples) if no update was stored.
C11_ReturnsLastAccepted ==
  /\ \A j \in 1..Len(stores) :
       /\ HasKey(stores[j].state, "dataset_name")
       /\ stores[j].state.dataset_name \notin {"None", ""}
  /\ \A i \in 1..Len(log) : log[i].stored <=> Accepted(log[i])
  /\ reply # NoReply =>
       /\ reply.state = IF reply.nstored = 0 THEN InitialState
                        ELSE stores[reply.nstored].state
       /\ (reply.idle /\ reply.after = 1) => reply.state = LastAccepted(1)

\* An accepted update and one that was not have ended, in this order, and the
\* reply is the state of the first.
C11_Witness ==
  /\ reply.after = 2
  /\ reply.idle
  /\ Accepted(log[1])
  /\ ~Accepted(log[2])
  /\ reply.state = log[1].state
  /\ reply.state # InitialState

\* Two accepted updates of one session overlapped: the one that stored its
\* state first ended last, and the reply is the state of the other, which was
\* stored last.
C11_WitnessOverlap ==
  /\ reply.after = 2
  /\ reply.idle
  /\ Accepted(log[1]) /\ Accepted(log[2])
  /\ log[1].sid = log[2].sid
  /\ stores[1].state = log[2].state
  /\ stores[2].state = log[1].state
  /\ log[1].state # log[2].state
  /\ reply.state = log[1].state

\* The payloads of the ended updates that were sent to session t, in order.
Delivered(t) ==
  LET sent == SelectSeq(log, LAMBDA rec : t \in rec.sent_to)
  IN [i \in 1..Len(sent) |-> sent[i].state]

\* C12 as stated: every update event received is rebroadcast with the same
\* payload to every other connected session and not to the sender. Updates
\* whose handler raised are left aside.
C12_EveryUpdateRebroadcast ==
  /\ \A i \in 1..Len(log) :
       /\ log[i].sid \notin log[i].sent_to
       /\ log[i].outcome = "returned" => log[i].sent_to = log[i].others
  /\ \A t \in Sessions : inbox[t] = Delivered(t)

\* C12, amended: an update event whose dataset_name is neither None nor empty
\* and whose handler does not raise is rebroadcast with the same payload to
\* every other connected session and not to the sender; any other update event
\* is rebroadcast to no session.
C12_AcceptedUpdateRebroadcast ==
  /\ \A i \in 1..Len(log) :
       /\ log[i].sid \notin log[i].sent_to
       /\ log[i].sent_to = IF Accepted(log[i]) THEN log[i].others ELSE {}
  /\ \A t \in Sessions : inbox[t] = Delivered(t)

\* An accepted update reached another connected session with its payload, and
\* an update that was not accepted reached nobody although another session was
\* connected.
C12_Witness ==
  /\ Len(log) = 2
  /\ \E i, j \in 1..2 :
       /\ Accepted(log[i])
       /\ log[i].sent_to # {}
       /\ \E t \in log[i].sent_to : log[i].state \in {inbox[t][k] : k \in 1..Len(inbox[t])}
       /\ ~Accepted(log[j])
       /\ log[j].others # {}
       /\ log[j].sent_to = {}

\* C17 as stated: after session A's accepted update s, which no other update
\* follows (it is the last update to arrive, and every handler has ended),
\* get_current_state of another session B returns s.
C17_LastArrivalReturned ==
  (reply # NoReply /\ reply.idle) =>
    \A i \in 1..reply.after :
      (log[i].last # "no" /\ Accepted(log[i]) /\ log[i].sid # reply.sid)
        => reply.state = log[i].state

\* C17, amended: the controller's state is shared by the sessions of the
\* namespace. Whatever the interleaving of the handlers, get_current_state of
\* any session returns the state last assigned by any session's update, and
\* every accepted update that has ended has been assigned. After an accepted
\* update s that no other update follows, every session is answered with s if
\* no handler was in progress when s arrived, or if s is the only accepted
\* update; an update that arrived before s and whose handler was still in
\* progress may be assigned after s, and is then the one returned.
C17_StateSharedBySessions ==
  reply # NoReply =>
    /\ reply.state = IF reply.nstored = 0 THEN InitialState
                     ELSE stores[reply.nstored].state
    /\ \A i \in 1..reply.after :
         Accepted(log[i]) =>
           \E j \in 1..reply.nstored :
             /\ stores[j].sid = log[i].sid
             /\ stores[j].state = log[i].state
    /\ \A k \in 1..reply.after :
         (reply.idle /\ {i \in 1..reply.after : Accepted(log[i])} = {k})
           => reply.state = log[k].state
    /\ \A k \in 1..reply.after :
         (reply.idle /\ log[k].last = "alone" /\ Accepted(log[k]))
           => reply.state = log[k].state

\* Session A's accepted update arrived last, when no handler was in progress,
\* after another accepted update with another state; session B asks after it
\* has ended and is answered with A's state.
C17_Witness ==
  /\ reply # NoReply
  /\ reply.idle
  /\ reply.after = 2
  /\ Accepted(log[1]) /\ Accepted(log[2])
  /\ log[2].last = "alone"
  /\ log[1].state # log[2].state
  /\ log[2].sid # reply.sid
  /\ reply.state = log[2].state

\* Session B asks while the handler of session A's update has stored the state
\* and has not yet broadcast it, and is answered with A's state.
C17_WitnessDuring ==
  /\ reply # NoReply
  /\ reply.nstored >= 1
  /\ stores[reply.nstored].sid # reply.sid
  /\ \E h \in Handlers :
       /\ h.pc = "emit"
       /\ h.sid = stores[reply.nstored].sid
       /\ h.state = stores[reply.nstored].state
       /\ reply.state = h.state

\* The value of self.state.
CurrentState == GetAttr(attrs, InstanceFor(1), "state")

\* C19: an update whose dataset resolution or iterator creation fails does
\* not assign the stored state and is sent to nobody; an update assigns the
\* stored state exactly when it is broadcast, and the stored state is the
\* initial one or the state of the update that assigned it last.
C19_StoreAndBroadcastTogether ==
  /\ \A i \in 1..Len(log) :
       LET rec == log[i]
       IN /\ rec.outcome = "raised" =>
               /\ ~rec.stored
               /\ ~rec.emitted
               /\ rec.sent_to = {}
          /\ rec.stored <=> rec.emitted
          /\ rec.stored =>
               \E j \in 1..Len(stores) :
                 stores[j] = [sid |-> rec.sid, state |-> rec.state]
  /\ Len(stores) = Cardinality({i \in 1..Len(log) : log[i].emitted})
                     + BagCardinality([h \in {g \in Handlers : g.stored} |-> handler[h]])
  /\ CurrentState = IF stores = <<>> THEN InitialState ELSE stores[Len(stores)].state

\* The iterator could not be created for one update, after its dataset had
\* been resolved, and another update was stored and broadcast: the stored state
\* is that of the second.
C19_Witness ==
  /\ Len(log) = 2
  /\ log[1].error = "QueryError"
  /\ log[2].emitted
  /\ log[2].state # log[1].state
  /\ CurrentState = log[2].state
  /\ Len(stores) = 1
====
